---- MODULE Spec2Model ----
(***************************************************************************)
(* Model of ReceiptDatabase (src/database.py): the field parsers, the      *)
(* get-or-create resolvers and insert_receipt, run against one psycopg2    *)
(* connection to a PostgreSQL store.                                       *)
(*                                                                         *)
(* Conventions.  A Python value that may be None is a sequence of length   *)
(* at most one: <<>> is None and <<v>> is the value v.  A Python string    *)
(* that the code scans (dates, prices, quantities) is a sequence of        *)
(* one-character strings; names and descriptions, which the code only      *)
(* compares, are TLA+ strings.  A float is an exact fraction [n, d] in     *)
(* lowest terms.                                                           *)
(***************************************************************************)
EXTENDS Integers, Sequences, FiniteSets, TLC

None == <<>>
Some(v) == <<v>>

(***************************************************************************)
(* Characters and numbers                                                  *)
(***************************************************************************)
Digits == {"0", "1", "2", "3", "4", "5", "6", "7", "8", "9"}

DigitVal(c) ==
    CASE c = "0" -> 0 [] c = "1" -> 1 [] c = "2" -> 2 [] c = "3" -> 3
      [] c = "4" -> 4 [] c = "5" -> 5 [] c = "6" -> 6 [] c = "7" -> 7
      [] c = "8" -> 8 [] c = "9" -> 9

IsSpace(c) == c = " "

RECURSIVE Gcd(_, _)
Gcd(a, b) == IF b = 0 THEN a ELSE Gcd(b, a % b)

\* A fraction in lowest terms (d > 0, n >= 0).
Frac(n, d) == LET g == Gcd(n, d) IN [n |-> n \div g, d |-> d \div g]

\* Python's float division x / y for y # 0.
FloatDiv(x, y) == Frac(x.n * y.d, x.d * y.n)

One == Frac(1, 1)

RECURSIVE Pow10(_)
Pow10(k) == IF k = 0 THEN 1 ELSE 10 * Pow10(k - 1)

RECURSIVE DigitsVal(_)
DigitsVal(s) ==
    IF s = <<>> THEN 0
    ELSE 10 * DigitsVal(SubSeq(s, 1, Len(s) - 1)) + DigitVal(s[Len(s)])

AllDigits(s) == \A i \in 1..Len(s) : s[i] \in Digits

\* Python's float(run) for a run of digits and points; None stands for the
\* ValueError that float raises on "." or on a run with two points.
FloatOf(run) ==
    LET dots == {i \in 1..Len(run) : run[i] = "."}
    IN  IF Cardinality(dots) > 1 \/ Len(run) - Cardinality(dots) = 0
        THEN None
        ELSE IF dots = {}
             THEN Some(Frac(DigitsVal(run), 1))
             ELSE LET p == CHOOSE i \in dots : TRUE
                      ip == SubSeq(run, 1, p - 1)
                      fp == SubSeq(run, p + 1, Len(run))
                  IN  Some(Frac(DigitsVal(ip) * Pow10(Len(fp)) + DigitsVal(fp),
                                Pow10(Len(fp))))

\* re.search(r'[\d.]+', s): the leftmost, longest run of digits and points.
NumericRun(s) ==
    LET isNum(i) == s[i] \in Digits \cup {"."}
        starts == {i \in 1..Len(s) : isNum(i)}
    IN  IF starts = {} THEN None
        ELSE LET b == CHOOSE i \in starts : \A j \in starts : i <= j
                 ends == {j \in b..Len(s) :
                            /\ \A k \in b..j : isNum(k)
                            /\ (j = Len(s) \/ ~isNum(j + 1))}
                 e == CHOOSE j \in ends : \A k \in ends : j <= k
             IN  Some(SubSeq(s, b, e))

\* Python truthiness of an optional raw string: None and "" are falsy.
TruthyStr(raw) == raw # None /\ raw[1] # <<>>

\* Python truthiness of an optional float: None and 0.0 are falsy.
TruthyNum(x) == x # None /\ x[1].n # 0

\* Python truthiness of an optional name: None and "" are falsy.
TruthyName(x) == x # None /\ x[1] # ""

\* Python truthiness of an optional row id: None and 0 are falsy.
TruthyId(x) == x # None /\ x[1] # 0

parse_price(price_str) ==
    IF ~TruthyStr(price_str) THEN None
    ELSE LET match == NumericRun(price_str[1])
         IN  IF match # None THEN FloatOf(match[1]) ELSE None

parse_quantity(quantity_str) ==
    IF ~TruthyStr(quantity_str) THEN None
    ELSE LET match == NumericRun(quantity_str[1])
         IN  IF match # None THEN FloatOf(match[1]) ELSE None

(***************************************************************************)
(* parse_date                                                              *)
(***************************************************************************)
RECURSIVE Strip(_)
Strip(s) ==
    IF s = <<>> THEN s
    ELSE IF IsSpace(s[1]) THEN Strip(Tail(s))
    ELSE IF IsSpace(s[Len(s)]) THEN Strip(SubSeq(s, 1, Len(s) - 1))
    ELSE s

\* s.split("-")
RECURSIVE SplitHyphen(_)
SplitHyphen(s) ==
    LET hy == {i \in 1..Len(s) : s[i] = "-"}
    IN  IF hy = {} THEN <<s>>
        ELSE LET p == CHOOSE i \in hy : \A j \in hy : i <= j
             IN  <<SubSeq(s, 1, p - 1)>> \o SplitHyphen(SubSeq(s, p + 1, Len(s)))

\* The directives of _strptime: each yields the field's value or None.
\* %m: 1[0-2]|0[1-9]|[1-9]
DirMonth(p) ==
    IF AllDigits(p) /\ Len(p) \in {1, 2} /\ DigitsVal(p) \in 1..12
    THEN Some(DigitsVal(p)) ELSE None

\* %d: 3[0-1]|[1-2]\d|0[1-9]|[1-9]| [1-9]
DirDay(p) ==
    IF AllDigits(p) /\ Len(p) \in {1, 2} /\ DigitsVal(p) \in 1..31
    THEN Some(DigitsVal(p))
    ELSE IF Len(p) = 2 /\ p[1] = " " /\ p[2] \in Digits \ {"0"}
    THEN Some(DigitVal(p[2]))
    ELSE None

\* %Y: \d\d\d\d
DirYear4(p) ==
    IF AllDigits(p) /\ Len(p) = 4 THEN Some(DigitsVal(p)) ELSE None

\* %y: \d\d, 69..99 -> 19xx, 00..68 -> 20xx
DirYear2(p) ==
    IF AllDigits(p) /\ Len(p) = 2
    THEN Some(IF DigitsVal(p) <= 68 THEN 2000 + DigitsVal(p) ELSE 1900 + DigitsVal(p))
    ELSE None

IsLeap(y) == y % 4 = 0 /\ (y % 100 # 0 \/ y % 400 = 0)

DaysInMonth(y, m) ==
    IF m = 2 THEN (IF IsLeap(y) THEN 29 ELSE 28)
    ELSE IF m \in {4, 6, 9, 11} THEN 30 ELSE 31

\* datetime(y, m, d) accepts the fields.
ValidDate(y, m, d) == y >= 1 /\ m \in 1..12 /\ d >= 1 /\ d <= DaysInMonth(y, m)

\* A format list that tries day-month-year first.
DateFormatsDayFirst == <<"%d-%m-%Y", "%m-%d-%Y", "%m-%d-%y", "%Y-%m-%d">>

\* Line 47: the formats, in the order of the for loop.
DateFormats == <<"%m-%d-%Y", "%m-%d-%y", "%Y-%m-%d", "%d-%m-%Y">>

\* datetime.strptime(s, fmt): the date [y, m, d], or None for ValueError.
strptime(s, fmt) ==
    LET parts == SplitHyphen(s)
    IN  IF Len(parts) # 3 THEN None
        ELSE LET y == CASE fmt = "%m-%d-%Y" -> DirYear4(parts[3])
                        [] fmt = "%m-%d-%y" -> DirYear2(parts[3])
                        [] fmt = "%Y-%m-%d" -> DirYear4(parts[1])
                        [] fmt = "%d-%m-%Y" -> DirYear4(parts[3])
                 m == CASE fmt = "%m-%d-%Y" -> DirMonth(parts[1])
                        [] fmt = "%m-%d-%y" -> DirMonth(parts[1])
                        [] fmt = "%Y-%m-%d" -> DirMonth(parts[2])
                        [] fmt = "%d-%m-%Y" -> DirMonth(parts[2])
                 d == CASE fmt = "%m-%d-%Y" -> DirDay(parts[2])
                        [] fmt = "%m-%d-%y" -> DirDay(parts[2])
                        [] fmt = "%Y-%m-%d" -> DirDay(parts[3])
                        [] fmt = "%d-%m-%Y" -> DirDay(parts[1])
             IN  IF y = None \/ m = None \/ d = None THEN None
                 ELSE IF ValidDate(y[1], m[1], d[1])
                      THEN Some([y |-> y[1], m |-> m[1], d |-> d[1]])
                      ELSE None

DigitChar(k) == <<"0", "1", "2", "3", "4", "5", "6", "7", "8", "9">>[k + 1]

\* The decimal digits of k, zero-padded to w characters.
RECURSIVE ZeroPad(_, _)
ZeroPad(k, w) ==
    IF w <= 1 /\ k < 10 THEN <<DigitChar(k)>>
    ELSE ZeroPad(k \div 10, w - 1) \o <<DigitChar(k % 10)>>

\* date_obj.strftime('%Y-%m-%d').  The C library of the build renders %Y:
\* some pad a year below 1000 to four digits (padded), glibc does not.
strftime(date_obj, padded) ==
    ZeroPad(date_obj.y, IF padded THEN 4 ELSE 1) \o <<"-">> \o ZeroPad(date_obj.m, 2)
        \o <<"-">> \o ZeroPad(date_obj.d, 2)

\* Lines 47-55: the loop over the formats from the i-th on.
RECURSIVE TryFormats(_, _, _)
TryFormats(s, i, padded) ==
    IF i > Len(DateFormats) THEN None
    ELSE LET date_obj == strptime(s, DateFormats[i])
         IN  IF date_obj # None THEN Some(strftime(date_obj[1], padded))
             ELSE TryFormats(s, i + 1, padded)

\* parse_date(date_str) on a build whose strftime is padded or not.
parse_date(date_str, padded) ==
    IF ~TruthyStr(date_str) THEN None
    ELSE TryFormats(Strip(date_str[1]), 1, padded)

(***************************************************************************)
(* The raw strings of the model's inputs.  The parsers are tabulated over  *)
(* them once, and insert_receipt reads the tables.                         *)
(***************************************************************************)
\* Raw inputs, as the extraction source writes them.
RawNA == <<"N", "/", "A">>
RawZero == <<"0", ".", "0", "0">>
RawFour == <<"4", ".", "0", "0">>
RawDollarFour == <<"$", "4">>
RawTwoEach == <<"2", "E", "A">>
RawDate == <<"0", "6", "-", "2", "8", "-", "2", "0", "1", "4">>

RawStrings ==
    {None, Some(<<>>)}
    \cup {Some(s) : s \in {RawNA, RawZero, RawFour, RawDollarFour, RawTwoEach, RawDate}}

\* The years of RawStrings have four digits, which every build renders alike.
parse_date_tab == [raw \in RawStrings |-> parse_date(raw, TRUE)]
parse_quantity_tab == [raw \in RawStrings |-> parse_quantity(raw)]
parse_price_tab == [raw \in RawStrings |-> parse_price(raw)]

(***************************************************************************)
(* The store: one psycopg2 connection (autocommit off) to PostgreSQL.      *)
(*                                                                         *)
(* A connection c is [tx, work, comm, seq, n, fault, errs]: tx is the      *)
(* state of the connection's transaction ("idle": none, "open": begun,     *)
(* "failed":                                                               *)
(* aborted by an error and refusing statements until rollback); comm is    *)
(* the committed tables and work the tables as the connection sees them    *)
(* (comm plus its uncommitted writes); seq holds the id sequences, which a *)
(* rollback does not rewind; n counts the statements executed in the       *)
(* current call and fault is the position of the statement on which the    *)
(* store raises an error (0: none); errs counts the statements that        *)
(* raised in the current call.                                             *)
(***************************************************************************)
EmptyTables == [merchant |-> <<>>, product |-> <<>>, receipt |-> <<>>, item |-> <<>>]

\* cur.execute / conn.commit raises psycopg2.Error: the store faults on this
\* statement, or the transaction is already aborted.
Raises(c) == c.tx = "failed" \/ c.n + 1 = c.fault

\* The statement raised: the transaction is aborted.
Errored(c) == [c EXCEPT !.tx = "failed", !.n = @ + 1, !.errs = @ + 1]

\* The statement ran (psycopg2 begins a transaction on the first one).
Executed(c, work) == [c EXCEPT !.tx = "open", !.n = @ + 1, !.work = work]

\* A rollback that discards the receipt and item rows only, as if the
\* resolvers had written their rows in a transaction of their own.
RollbackKeepingResolved(c) ==
    [c EXCEPT !.tx = "idle",
              !.comm = [c.comm EXCEPT !.merchant = c.work.merchant,
                                      !.product = c.work.product],
              !.work = [c.work EXCEPT !.receipt = c.comm.receipt,
                                      !.item = c.comm.item]]

\* self.conn.rollback()
Rollback(c) == [c EXCEPT !.tx = "idle", !.work = c.comm]

\* self.conn.commit() that does not raise: COMMIT of an aborted transaction
\* is answered with ROLLBACK and no error.
Commit(c) ==
    IF c.tx = "open" THEN [c EXCEPT !.tx = "idle", !.comm = c.work, !.n = @ + 1]
    ELSE [c EXCEPT !.tx = "idle", !.work = c.comm, !.n = @ + 1]

\* conn.commit() raises only when the store faults on it.
CommitRaises(c) == c.n + 1 = c.fault

\* A lookup that never finds the row.
SelectMerchantNever(work, merchant_name) == None

\* cur.fetchone() of SELECT merchant_id FROM merchant WHERE merchant_name = %s
SelectMerchant(work, merchant_name) ==
    LET hits == {i \in 1..Len(work.merchant) : work.merchant[i].name = merchant_name}
    IN  IF hits = {} THEN None
        ELSE Some(work.merchant[CHOOSE i \in hits : \A j \in hits : i <= j].id)

\* cur.fetchone() of SELECT product_id FROM product WHERE product_description = %s
SelectProduct(work, product_description) ==
    LET hits == {i \in 1..Len(work.product) : work.product[i].desc = product_description}
    IN  IF hits = {} THEN None
        ELSE Some(work.product[CHOOSE i \in hits : \A j \in hits : i <= j].id)

\* insert_or_get_merchant(merchant_name): [c, ret], ret the id or None.
insert_or_get_merchant(c, merchant_name) ==
    IF ~TruthyName(merchant_name) THEN [c |-> c, ret |-> None]
    ELSE IF Raises(c) THEN [c |-> Errored(c), ret |-> None]
    ELSE LET c1 == Executed(c, c.work)
             result == SelectMerchant(c1.work, merchant_name[1])
         IN  IF result # None THEN [c |-> c1, ret |-> result]
             ELSE IF Raises(c1) THEN [c |-> Errored(c1), ret |-> None]
             ELSE LET merchant_id == c1.seq.merchant + 1
                      row == [id |-> merchant_id, name |-> merchant_name[1]]
                      c2 == Executed(c1, [c1.work EXCEPT !.merchant = Append(@, row)])
                  IN  [c |-> [c2 EXCEPT !.seq.merchant = merchant_id],
                       ret |-> Some(merchant_id)]

\* insert_or_get_product(product_description): [c, ret], ret the id or None.
insert_or_get_product(c, product_description) ==
    IF ~TruthyName(product_description) THEN [c |-> c, ret |-> None]
    ELSE IF Raises(c) THEN [c |-> Errored(c), ret |-> None]
    ELSE LET c1 == Executed(c, c.work)
             result == SelectProduct(c1.work, product_description[1])
         IN  IF result # None THEN [c |-> c1, ret |-> result]
             ELSE IF Raises(c1) THEN [c |-> Errored(c1), ret |-> None]
             ELSE LET product_id == c1.seq.product + 1
                      row == [id |-> product_id, desc |-> product_description[1]]
                      c2 == Executed(c1, [c1.work EXCEPT !.product = Append(@, row)])
                  IN  [c |-> [c2 EXCEPT !.seq.product = product_id],
                       ret |-> Some(product_id)]

(***************************************************************************)
(* insert_receipt                                                          *)
(***************************************************************************)
\* Lines 237-243: the values stored for an item, from its parsed fields.
\* unit_price is derived when it is falsy and quantity is truthy; quantity
\* becomes 1 when it is falsy.
DeriveValues(quantity, unit_price, total_price) ==
    [quantity |-> IF ~TruthyNum(quantity) THEN Some(One) ELSE quantity,
     unit_price |-> IF ~TruthyNum(unit_price) /\ TruthyNum(quantity)
                    THEN Some(FloatDiv(total_price[1], quantity[1]))
                    ELSE unit_price,
     total_price |-> total_price]

\* Lines 230-243: the values stored for an item whose total_price is truthy.
ItemValues(item) ==
    DeriveValues(parse_quantity_tab[item.Quantity], parse_price_tab[item.Price],
                 parse_price_tab[item.TotalPrice])

\* Lines 226 and 234: the item is skipped before any statement.
SkippedUnparsed(item) ==
    ~TruthyName(item.Description) \/ ~TruthyNum(parse_price_tab[item.TotalPrice])

\* The row built from the values v; call and pos record the call that wrote
\* it and the position of the raw item.
ItemRowOf(c, receipt_id, product_id, v, pos, call) ==
    [id |-> c.seq.item + 1, receipt_id |-> receipt_id, product_id |-> product_id,
     quantity |-> v.quantity, unit_price |-> v.unit_price,
     total_price |-> v.total_price, call |-> call, pos |-> pos]

\* A row with receipt_id and product_id in each other's place.
ItemRowSwapped(c, receipt_id, product_id, item, pos, call) ==
    ItemRowOf(c, product_id, receipt_id, ItemValues(item), pos, call)

\* Lines 252-255: the receipt_item row of an item.
ItemRow(c, receipt_id, product_id, item, pos, call) ==
    ItemRowOf(c, receipt_id, product_id, ItemValues(item), pos, call)

\* Lines 252-256: cur.execute(INSERT INTO receipt_item ...) that does not raise.
InsertItem(c, row) ==
    [Executed(c, [c.work EXCEPT !.item = Append(@, row)]) EXCEPT !.seq.item = row.id]

\* Line 247: the item at position i is skipped, its product unresolved.
AddUnresolved(rest, i) == [rest EXCEPT !.unresolved = @ \cup {i}]

\* Lines 224-256, from item i on: [c, raised, unresolved].  raised is the
\* position of the item whose INSERT INTO receipt_item raised psycopg2.Error
\* out of the loop (0: none did); unresolved collects the positions of the
\* items skipped at line 247 because insert_or_get_product returned None.
RECURSIVE ItemLoop(_, _, _, _, _)

\* Lines 247-256: item i once insert_or_get_product has returned p.
ItemAfterProduct(p, items, i, receipt_id, call) ==
    IF ~TruthyId(p.ret)
    THEN AddUnresolved(ItemLoop(p.c, items, i + 1, receipt_id, call), i)
    ELSE IF Raises(p.c)
    THEN [c |-> Errored(p.c), raised |-> i, unresolved |-> {}]
    ELSE ItemLoop(InsertItem(p.c, ItemRow(p.c, receipt_id, p.ret[1], items[i], i, call)),
                  items, i + 1, receipt_id, call)

ItemLoop(c, items, i, receipt_id, call) ==
    IF i > Len(items) THEN [c |-> c, raised |-> 0, unresolved |-> {}]
    ELSE IF SkippedUnparsed(items[i]) THEN ItemLoop(c, items, i + 1, receipt_id, call)
    ELSE ItemAfterProduct(insert_or_get_product(c, items[i].Description),
                          items, i, receipt_id, call)

\* Lines 210-214: the receipt row; call records the call that wrote it.
ReceiptRow(c, merchant_id, transaction_date, subtotal, tax, total, call) ==
    [id |-> c.seq.receipt + 1, merchant_id |-> merchant_id,
     transaction_date |-> transaction_date, subtotal |-> subtotal, tax |-> tax,
     total |-> total, call |-> call]

\* Lines 210-215: cur.execute(INSERT INTO receipt ...) that does not raise.
InsertHeader(c, row) ==
    [Executed(c, [c.work EXCEPT !.receipt = Append(@, row)]) EXCEPT !.seq.receipt = row.id]

\* What insert_receipt leaves: the connection, the value returned, and for
\* the properties the statement whose psycopg2.Error reached the except
\* clause of line 262 ("none", "header", "item", "commit"), the position of
\* that item and the positions of the items whose product did not resolve.
Result(c, ret, exc, pos, unresolved) ==
    [c |-> c, ret |-> ret, exc |-> exc, pos |-> pos, unresolved |-> unresolved]

\* A handler that returns False and leaves the transaction as it is.
OnDatabaseErrorNoRollback(c) == c

\* Lines 262-265: except psycopg2.Error: self.conn.rollback()
OnDatabaseError(c) == Rollback(c)

\* Lines 258-260 and 221-222: self.conn.commit(), then return True; the
\* except clause when commit raises.
CommitAndReturn(c, unresolved) ==
    IF CommitRaises(c)
    THEN Result(OnDatabaseError(Errored(c)), FALSE, "commit", 0, unresolved)
    ELSE Result(Commit(c), TRUE, "none", 0, unresolved)

\* Lines 257-265: the loop has ended in l.
AfterItems(l) ==
    IF l.raised # 0
    THEN Result(OnDatabaseError(l.c), FALSE, "item", l.raised, l.unresolved)
    ELSE CommitAndReturn(l.c, l.unresolved)

\* Lines 218-260: the header is inserted.
AfterHeader(c, items, receipt_id, call) ==
    IF items = <<>> THEN CommitAndReturn(c, {})
    ELSE AfterItems(ItemLoop(c, items, 1, receipt_id, call))

\* A validation that forgets the total.
ValidHeaderNoTotal(receipt_data) ==
    /\ TruthyName(receipt_data.merchant)
    /\ TruthyStr(parse_date_tab[receipt_data.date])

\* Lines 191-201: the required fields are present.
ValidHeader(receipt_data) ==
    /\ TruthyName(receipt_data.merchant)
    /\ TruthyStr(parse_date_tab[receipt_data.date])
    /\ TruthyNum(parse_price_tab[receipt_data.total])

\* receipt_data.get('items', []) and "if not items"
ItemsOf(receipt_data) == IF receipt_data.items = None THEN <<>> ELSE receipt_data.items[1]

\* Lines 205-260: insert_or_get_merchant has returned m.
AfterMerchant(m, receipt_data, call) ==
    IF ~TruthyId(m.ret) THEN Result(m.c, FALSE, "none", 0, {})
    ELSE IF Raises(m.c)
    THEN Result(OnDatabaseError(Errored(m.c)), FALSE, "header", 0, {})
    ELSE AfterHeader(InsertHeader(m.c, ReceiptRow(m.c, m.ret[1],
                                                 parse_date_tab[receipt_data.date],
                                                 parse_price_tab[receipt_data.subtotal],
                                                 parse_price_tab[receipt_data.tax],
                                                 parse_price_tab[receipt_data.total],
                                                 call)),
                     ItemsOf(receipt_data), m.c.seq.receipt + 1, call)

\* insert_receipt(receipt_data); call tags the rows written.
insert_receipt(c, receipt_data, call) ==
    IF ~ValidHeader(receipt_data) THEN Result(c, FALSE, "none", 0, {})
    ELSE AfterMerchant(insert_or_get_merchant(c, receipt_data.merchant),
                       receipt_data, call)

(***************************************************************************)
(* The state machine: a caller drives one ReceiptDatabase, connected by    *)
(* connect(), through a sequence of calls.  conn is the connection, calls  *)
(* the number of calls made, last the record of the latest call (its       *)
(* input, its result, the connection it found in pre, the op and result   *)
(* of the call before it, and in batch whether every call so far was an    *)
(* insert_receipt, as in main), resolved the id that the latest successful *)
(* insert_or_get_merchant returned for each name.                          *)
(***************************************************************************)
VARIABLES conn, calls, last, resolved

vars == <<conn, calls, last, resolved>>

\* Bounds of the model: the calls of a run, the items of a receipt.
MaxCalls == 2
MaxItems == 2

\* The statements one insert_receipt call can execute: two for the merchant,
\* the header, three per item, the commit.
MaxFault == 4 + 3 * MaxItems

MerchantNames == {"A", "B"}
Descriptions == {"X", "Y"}
MerchantArgs == {None, Some("")} \cup {Some(m) : m \in MerchantNames}
ProductArgs == {None, Some("")} \cup {Some(d) : d \in Descriptions}

\* Two items that the code accepts.
ItemX ==
    [Description |-> Some("X"), Quantity |-> None, Price |-> None,
     TotalPrice |-> Some(RawFour)]
ItemY ==
    [Description |-> Some("Y"), Quantity |-> Some(RawTwoEach), Price |-> None,
     TotalPrice |-> Some(RawFour)]

ListsOver(S) == UNION {[1..k -> S] : k \in 0..MaxItems}
ItemsArgs(S) == {None} \cup {Some(l) : l \in ListsOver(S)}

\* A receipt with every required field, and the same receipt with one field
\* of the header replaced.
BaseReceipt ==
    [merchant |-> Some("A"), date |-> Some(RawDate), subtotal |-> Some(RawDollarFour),
     tax |-> None, total |-> Some(RawDollarFour), items |-> Some(<<ItemX, ItemY>>)]

HeaderVariants ==
    {[BaseReceipt EXCEPT !.merchant = m] : m \in {None, Some("")}}
    \cup {[BaseReceipt EXCEPT !.date = d] : d \in {None, Some(RawNA)}}
    \cup {[BaseReceipt EXCEPT !.total = t] : t \in {None, Some(RawNA), Some(RawZero)}}

\* The receipts of the batch: merchant A with every list of accepted items,
\* merchant B with the short lists, and the header variants.
RawReceipts ==
    {[BaseReceipt EXCEPT !.items = l] : l \in ItemsArgs({ItemX, ItemY})}
    \cup {[BaseReceipt EXCEPT !.merchant = Some("B"), !.items = l] :
             l \in {None, Some(<<ItemX>>)}}
    \cup HeaderVariants

\* Items in every combination of absent, unparsable, zero and positive fields.
RichItems ==
    [Description : {None, Some(""), Some("X")},
     Quantity : {None, Some(RawZero), Some(RawTwoEach)},
     Price : {None, Some(RawZero), Some(RawDollarFour)},
     TotalPrice : {None, Some(RawNA), Some(RawZero), Some(RawFour)}]

RichReceipts == {[BaseReceipt EXCEPT !.items = l] : l \in ItemsArgs(RichItems)}

NoReceipt ==
    [merchant |-> None, date |-> None, subtotal |-> None, tax |-> None,
     total |-> None, items |-> None]

\* The state after connect(): no transaction, an empty store.
Init ==
    /\ conn = [tx |-> "idle", work |-> EmptyTables, comm |-> EmptyTables,
               seq |-> [merchant |-> 0, product |-> 0, receipt |-> 0, item |-> 0]]
    /\ calls = 0
    /\ last = [op |-> "none", call |-> 0, rcpt |-> NoReceipt, name |-> None,
               fault |-> 0, ok |-> FALSE, id |-> None, prior |-> None, pre |-> conn,
               stmts |-> 0, errs |-> 0, exc |-> "none", pos |-> 0, unresolved |-> {},
               prevOp |-> "none", prevOk |-> FALSE, batch |-> TRUE]
    /\ resolved = [m \in MerchantNames |-> None]

\* The connection as a call finds it, with the store's fault for this call.
Entering(fault) ==
    [tx |-> conn.tx, work |-> conn.work, comm |-> conn.comm, seq |-> conn.seq,
     n |-> 0, fault |-> fault, errs |-> 0]

\* The connection a call leaves behind.
Leaving(c) == [tx |-> c.tx, work |-> c.work, comm |-> c.comm, seq |-> c.seq]

\* The fault named was met by a statement of the call (or there is none).
FaultMet(c, fault) == fault = 0 \/ c.n >= fault

\* The record of a call: op with the arguments rcpt or name and the store's
\* fault, which left c, returned ok (and id, for a resolver), and found the
\* name resolved to prior.
Called(op, rcpt, name, fault, r, ok, id, prior) ==
    [op |-> op, call |-> calls + 1, rcpt |-> rcpt, name |-> name, fault |-> fault,
     ok |-> ok, id |-> id, prior |-> prior, pre |-> conn, stmts |-> r.c.n,
     errs |-> r.c.errs, exc |-> r.exc, pos |-> r.pos, unresolved |-> r.unresolved,
     prevOp |-> last.op, prevOk |-> last.ok,
     batch |-> last.batch /\ op = "insert_receipt"]

\* insert_receipt returned r.
ReceiptReturned(r, receipt_data, fault) ==
    /\ FaultMet(r.c, fault)
    /\ conn' = Leaving(r.c)
    /\ last' = Called("insert_receipt", receipt_data, receipt_data.merchant, fault,
                      r, r.ret, None, None)

\* db.insert_receipt(receipt_data), receipt_data drawn from Receipts.
InsertReceiptFrom(Receipts) ==
    /\ \E receipt_data \in Receipts, fault \in 0..MaxFault :
         ReceiptReturned(insert_receipt(Entering(fault), receipt_data, calls + 1),
                         receipt_data, fault)
    /\ calls' = calls + 1
    /\ UNCHANGED resolved

InsertReceiptWithin(bound, Receipts) ==
    /\ calls < bound
    /\ InsertReceiptFrom(Receipts)

InsertReceipt == InsertReceiptWithin(MaxCalls, RawReceipts)

\* A resolver's [c, ret] in the shape of Result.
Resolved(r) == Result(r.c, r.ret # None, "none", 0, {})

\* insert_or_get_merchant returned r.
MerchantReturned(r, merchant_name, fault) ==
    /\ FaultMet(r.c, fault)
    /\ conn' = Leaving(r.c)
    /\ last' = Called("insert_or_get_merchant", NoReceipt, merchant_name, fault,
                      Resolved(r), r.ret # None, r.ret,
                      IF TruthyName(merchant_name)
                      THEN resolved[merchant_name[1]] ELSE None)
    /\ resolved' = IF r.ret # None
                   THEN [resolved EXCEPT ![merchant_name[1]] = r.ret]
                   ELSE resolved

\* db.insert_or_get_merchant(merchant_name)
InsertOrGetMerchantWithin(bound) ==
    /\ calls < bound
    /\ \E merchant_name \in MerchantArgs, fault \in 0..2 :
         MerchantReturned(insert_or_get_merchant(Entering(fault), merchant_name),
                          merchant_name, fault)
    /\ calls' = calls + 1

InsertOrGetMerchant == InsertOrGetMerchantWithin(MaxCalls)

\* insert_or_get_product returned r.
ProductReturned(r, product_description, fault) ==
    /\ FaultMet(r.c, fault)
    /\ conn' = Leaving(r.c)
    /\ last' = Called("insert_or_get_product", NoReceipt, product_description, fault,
                      Resolved(r), r.ret # None, r.ret, None)

\* db.insert_or_get_product(product_description)
InsertOrGetProductWithin(bound) ==
    /\ calls < bound
    /\ \E product_description \in ProductArgs, fault \in 0..2 :
         ProductReturned(insert_or_get_product(Entering(fault), product_description),
                         product_description, fault)
    /\ calls' = calls + 1
    /\ UNCHANGED resolved

InsertOrGetProduct == InsertOrGetProductWithin(MaxCalls)

Next == InsertReceipt \/ InsertOrGetMerchant \/ InsertOrGetProduct

Spec == Init /\ [][Next]_vars

\* The same ingestor fed receipts whose items vary in every field.
MaxItemCalls == 1

InsertReceiptItems == InsertReceiptWithin(MaxItemCalls, RichReceipts)

NextItems == InsertReceiptItems

SpecItems == Init /\ [][NextItems]_vars

\* The same calls in a longer session, for what takes three calls to show.
MaxSessionCalls == 3

SessionInsertReceipt == InsertReceiptWithin(MaxSessionCalls, RawReceipts)
SessionInsertOrGetMerchant == InsertOrGetMerchantWithin(MaxSessionCalls)
SessionInsertOrGetProduct == InsertOrGetProductWithin(MaxSessionCalls)

NextSession ==
    SessionInsertReceipt \/ SessionInsertOrGetMerchant \/ SessionInsertOrGetProduct

SpecSession == Init /\ [][NextSession]_vars

(***************************************************************************)
(* parse_date on its own: the caller hands it a scanned date string.       *)
(***************************************************************************)
\* The whitespace around a date string is at most MaxPad characters a side.
MaxPad == 1

\* The fields between the hyphens: months, days, two-digit and four-digit
\* years, a year below 1000, the year 0 and an empty field.
DateFields ==
    {<<"1">>, <<"0", "2">>, <<"1", "2">>, <<"1", "3">>, <<"2", "9">>, <<"3", "1">>,
     <<" ", "8">>, <<"6", "8">>, <<"6", "9">>, <<"2", "0", "1", "6">>,
     <<"0", "9", "9", "9">>, <<"0", "0", "0", "0">>, <<>>}

\* What follows the third field.
DateTails == {<<>>, <<"x">>, <<"-">>}

Padding(k) == [i \in 1..k |-> " "]

DateBodies ==
    {a \o <<"-">> \o b : a \in DateFields, b \in DateFields}
    \cup {a \o <<"-">> \o b \o <<"-">> \o c \o t :
             a \in DateFields, b \in DateFields, c \in DateFields, t \in DateTails}

DateStrings ==
    {None, Some(<<>>)}
    \cup {Some(Padding(l) \o body \o Padding(r)) :
             l \in 0..MaxPad, r \in 0..MaxPad, body \in DateBodies \cup {<<>>}}

\* The caller holds a scanned date string, on a build whose strftime pads
\* the year or does not.
InitDate ==
    /\ conn = [tx |-> "idle", work |-> EmptyTables, comm |-> EmptyTables,
               seq |-> [merchant |-> 0, product |-> 0, receipt |-> 0, item |-> 0]]
    /\ calls = 0
    /\ \E date_str \in DateStrings, padded \in BOOLEAN :
         last = [op |-> "none", date_str |-> date_str, padded |-> padded, ret |-> None]
    /\ resolved = [m \in MerchantNames |-> None]

\* db.parse_date(date_str)
ParseDate ==
    /\ last.op = "none"
    /\ last' = [last EXCEPT !.op = "parse_date",
                            !.ret = parse_date(last.date_str, last.padded)]
    /\ calls' = calls + 1
    /\ UNCHANGED <<conn, resolved>>

NextDate == ParseDate

SpecDate == InitDate /\ [][NextDate]_vars

(***************************************************************************)
(* Properties                                                              *)
(***************************************************************************)
\* The rows of a table of t that call k wrote.
ReceiptsOfCall(t, k) == {i \in 1..Len(t.receipt) : t.receipt[i].call = k}
ItemsOfCall(t, k) == {i \in 1..Len(t.item) : t.item[i].call = k}

WasInsertReceipt == last.op = "insert_receipt"

\* C1: when the INSERT of the receipt header or of a receipt item raises a
\* storage error, insert_receipt returns False and no receipt row and no
\* receipt_item row of that call is left, committed or pending: the header
\* and the items inserted before the error are rolled back together.
C1_InsertErrorRollsBack ==
    (WasInsertReceipt /\ last.exc \in {"header", "item"}) =>
        /\ ~last.ok
        /\ ReceiptsOfCall(conn.comm, last.call) = {}
        /\ ItemsOfCall(conn.comm, last.call) = {}
        /\ ReceiptsOfCall(conn.work, last.call) = {}
        /\ ItemsOfCall(conn.work, last.call) = {}
        /\ conn.comm = last.pre.comm

\* The second item's INSERT raised after the header and the first item went in.
C1_Witness ==
    /\ WasInsertReceipt
    /\ last.exc = "item"
    /\ last.pos = 2
    /\ last.stmts >= 6
    /\ ~last.ok

\* C2: a receipt with no merchant name, or whose date or total does not
\* parse, is refused before any statement: insert_receipt returns False, no
\* statement is executed and the connection and the four tables are as the
\* call found them.
C2_InvalidHeaderTouchesNothing ==
    (/\ WasInsertReceipt
     /\ \/ ~TruthyName(last.rcpt.merchant)
        \/ parse_date_tab[last.rcpt.date] = None
        \/ parse_price_tab[last.rcpt.total] = None) =>
        /\ ~last.ok
        /\ last.stmts = 0
        /\ conn = last.pre

\* A receipt without a parsable total was refused while the store held rows.
C2_Witness ==
    /\ WasInsertReceipt
    /\ TruthyName(last.rcpt.merchant)
    /\ parse_date_tab[last.rcpt.date] # None
    /\ parse_price_tab[last.rcpt.total] = None
    /\ ~last.ok
    /\ last.pre.comm.receipt # <<>>

\* The header fields of the latest call, as the parsers read them.
LastDate == parse_date_tab[last.rcpt.date]
LastTotal == parse_price_tab[last.rcpt.total]

\* The id of the merchant rows of t named name.
MerchantIds(t, name) ==
    {t.merchant[i].id : i \in {j \in 1..Len(t.merchant) : t.merchant[j].name = name}}

\* C3: a receipt with a merchant name, a date that parse_date parses and a
\* total that parse_price parses (to any value), met by no storage error, is
\* accepted: insert_receipt returns True and commits exactly one new receipt
\* row, with that merchant's id, the parsed date and the parsed total,
\* whatever its items.
C3_ParsedHeaderIsAccepted ==
    (/\ WasInsertReceipt
     /\ TruthyName(last.rcpt.merchant)
     /\ LastDate # None
     /\ LastTotal # None
     /\ last.errs = 0) =>
        /\ last.ok
        /\ Len(conn.comm.receipt) = Len(last.pre.comm.receipt) + 1
        /\ \E i \in 1..Len(conn.comm.receipt) :
              /\ ReceiptsOfCall(conn.comm, last.call) = {i}
              /\ conn.comm.receipt[i].merchant_id
                    \in MerchantIds(conn.comm, last.rcpt.merchant[1])
              /\ conn.comm.receipt[i].transaction_date = LastDate
              /\ conn.comm.receipt[i].total = LastTotal

\* No two rows of a table of t carry the same natural key.
UniqueKeys(t) ==
    /\ \A i, j \in 1..Len(t.merchant) :
          t.merchant[i].name = t.merchant[j].name => i = j
    /\ \A i, j \in 1..Len(t.product) :
          t.product[i].desc = t.product[j].desc => i = j

\* C4: after any sequence of calls the store, as committed and as the
\* connection sees it, holds at most one merchant row per name and one
\* product row per description, and a resolver given a key that a row
\* already carries returns that row's id and inserts nothing.
C4_OneRowPerKey ==
    /\ UniqueKeys(conn.comm)
    /\ UniqueKeys(conn.work)
    /\ (/\ last.op = "insert_or_get_merchant"
        /\ last.errs = 0
        /\ TruthyName(last.name)
        /\ MerchantIds(last.pre.work, last.name[1]) # {}) =>
           /\ last.id # None
           /\ last.id[1] \in MerchantIds(last.pre.work, last.name[1])
           /\ conn.work.merchant = last.pre.work.merchant
    /\ (/\ last.op = "insert_or_get_product"
        /\ last.errs = 0
        /\ TruthyName(last.name)
        /\ \E i \in 1..Len(last.pre.work.product) :
              last.pre.work.product[i].desc = last.name[1]) =>
           /\ last.id # None
           /\ \E i \in 1..Len(last.pre.work.product) :
                 /\ last.pre.work.product[i].desc = last.name[1]
                 /\ last.pre.work.product[i].id = last.id[1]
           /\ conn.work.product = last.pre.work.product

\* A second receipt of a merchant was committed with items of products that
\* the store already held: the name and the descriptions were resolved to
\* the rows of the first receipt.
C4_Witness ==
    /\ WasInsertReceipt
    /\ last.ok
    /\ TruthyName(last.name)
    /\ MerchantIds(last.pre.comm, last.name[1]) # {}
    /\ Len(conn.comm.receipt) = 2
    /\ Len(last.pre.comm.product) = 2
    /\ Len(conn.comm.item) > Len(last.pre.comm.item)

\* The name of the merchant of a receipt row of t.
MerchantNameOf(t, row) ==
    {t.merchant[i].name : i \in {j \in 1..Len(t.merchant) : t.merchant[j].id = row.merchant_id}}

\* C5: insert_or_get_merchant returns, for a name it resolved before, the id
\* it returned then, whatever insert_receipt calls ran in between; and two
\* committed receipts of one merchant name carry one merchant_id.
C5_MerchantIdIsStable ==
    /\ (/\ last.op = "insert_or_get_merchant"
        /\ last.id # None
        /\ last.prior # None) => last.id = last.prior
    /\ \A i, j \in 1..Len(conn.comm.receipt) :
          MerchantNameOf(conn.comm, conn.comm.receipt[i])
              = MerchantNameOf(conn.comm, conn.comm.receipt[j])
          => conn.comm.receipt[i].merchant_id = conn.comm.receipt[j].merchant_id

\* The positions of the raw items of the latest call whose rows t holds, in
\* the order of the table.
StoredPositions(t) ==
    LET rows == SelectSeq(t.item, LAMBDA r : r.call = last.call)
    IN  [j \in 1..Len(rows) |-> rows[j].pos]

\* The positions, in order, of the raw items of the latest call that have a
\* description and a parsed total_price and whose product resolved.
EligiblePositions ==
    LET items == ItemsOf(last.rcpt)
    IN  SelectSeq([i \in 1..Len(items) |-> i],
                  LAMBDA i : /\ TruthyName(items[i].Description)
                             /\ parse_price_tab[items[i].TotalPrice] # None
                             /\ i \notin last.unresolved)

\* C6: a True from insert_receipt means that the call's receipt header is
\* committed; and when product resolution fails for some items and nothing
\* else raises, the call returns True with the header and every other
\* eligible item committed.
C6_ProductFailureSkipsOneItem ==
    /\ (WasInsertReceipt /\ last.ok) => ReceiptsOfCall(conn.comm, last.call) # {}
    /\ (WasInsertReceipt /\ last.unresolved # {} /\ last.exc = "none") =>
           /\ last.ok
           /\ ReceiptsOfCall(conn.comm, last.call) # {}
           /\ StoredPositions(conn.comm) = EligiblePositions

\* C7: an insert_receipt that returns False leaves no open or failed
\* transaction and no uncommitted write behind, and in a batch of
\* insert_receipt calls the valid receipt that follows a failed one, met by
\* no store fault, is accepted and commits its own rows only.
C7_FailedReceiptLeavesCleanConnection ==
    /\ (WasInsertReceipt /\ ~last.ok /\ last.pre.tx = "idle") =>
           /\ conn.tx = "idle"
           /\ conn.work = conn.comm
    /\ (/\ WasInsertReceipt
        /\ last.batch
        /\ last.prevOp = "insert_receipt"
        /\ ~last.prevOk
        /\ ValidHeader(last.rcpt)
        /\ last.fault = 0) =>
           /\ last.ok
           /\ Len(conn.comm.receipt) = Len(last.pre.comm.receipt) + 1
           /\ \A i \in 1..Len(conn.comm.receipt) :
                 i > Len(last.pre.comm.receipt) => conn.comm.receipt[i].call = last.call

\* C8: in the committed store every receipt row has a total and a
\* merchant_id that is the id of a merchant row, and every receipt_item row
\* has the receipt_id of a receipt row written by the same call.
C8_CommittedRowsAreAnchored ==
    /\ \A i \in 1..Len(conn.comm.receipt) :
          /\ conn.comm.receipt[i].total # None
          /\ \E j \in 1..Len(conn.comm.merchant) :
                conn.comm.merchant[j].id = conn.comm.receipt[i].merchant_id
    /\ \A i \in 1..Len(conn.comm.item) :
          \E j \in 1..Len(conn.comm.receipt) :
             /\ conn.comm.receipt[j].id = conn.comm.item[i].receipt_id
             /\ conn.comm.receipt[j].call = conn.comm.item[i].call

\* Two receipts with items are committed, the second with products whose ids
\* differ from its receipt_id.
C8_Witness ==
    /\ Len(conn.comm.receipt) >= 2
    /\ \E i, j \in 1..Len(conn.comm.item) :
          /\ conn.comm.item[i].call # conn.comm.item[j].call
          /\ conn.comm.item[j].product_id # conn.comm.item[j].receipt_id

\* C9: the receipt_item rows committed for an accepted receipt are, in
\* order, the raw items that have a description, a total_price that
\* parse_price parses (to any value) and a product that resolves; and with a
\* valid header and no storage error, dropped items do not make
\* insert_receipt return False.
C9_CommittedItemsAreTheEligibleOnes ==
    /\ (WasInsertReceipt /\ last.ok /\ last.errs = 0) =>
           StoredPositions(conn.comm) = EligiblePositions
    /\ (WasInsertReceipt /\ ValidHeader(last.rcpt) /\ last.errs = 0) => last.ok

\* The values C10 derives for a raw item from its independently parsed
\* fields.
DerivedValues(item) ==
    LET q == parse_quantity_tab[item.Quantity]
        u == parse_price_tab[item.Price]
        t == parse_price_tab[item.TotalPrice]
    IN  [quantity |-> IF q # None THEN q ELSE Some(One),
         unit_price |-> IF u # None THEN u
                        ELSE IF q # None /\ q[1].n # 0 THEN Some(FloatDiv(t[1], q[1]))
                        ELSE None,
         total_price |-> t]

\* C10: every committed receipt_item row of the latest call stores the
\* total_price as parsed, the parsed Price as unit_price when it parsed and
\* otherwise total_price / quantity when the parsed quantity is present and
\* not zero (else nothing), and the parsed Quantity as quantity, 1 exactly
\* when Quantity was absent.
C10_StoredValuesAreTheDerivedOnes ==
    WasInsertReceipt =>
        \A i \in ItemsOfCall(conn.comm, last.call) :
           LET row == conn.comm.item[i]
               v == DerivedValues(ItemsOf(last.rcpt)[row.pos])
           IN  /\ row.quantity = v.quantity
               /\ row.unit_price = v.unit_price
               /\ row.total_price = v.total_price

\* The order of the formats as the description gives it.
DescribedOrder == <<"%m-%d-%Y", "%m-%d-%y", "%Y-%m-%d", "%d-%m-%Y">>

\* The formats that accept the stripped input of the latest parse_date.
LastStripped == Strip(last.date_str[1])
LastAccepting == {i \in 1..Len(DescribedOrder) : strptime(LastStripped, DescribedOrder[i]) # None}

\* out is year-month-day text for the date d: three hyphen-separated runs of
\* digits, the year, the month in two digits and the day in two digits.
IsYearMonthDay(out, d) ==
    LET p == SplitHyphen(out)
    IN  /\ Len(p) = 3
        /\ \A k \in 1..3 : AllDigits(p[k])
        /\ DigitsVal(p[1]) = d.y
        /\ Len(p[2]) = 2 /\ DigitsVal(p[2]) = d.m
        /\ Len(p[3]) = 2 /\ DigitsVal(p[3]) = d.d

\* C11: parse_date returns absent for an absent or empty input and for a
\* stripped input that none of the four formats accepts; otherwise it
\* returns the year-month-day text of the date read by the first format, in
\* the order month-day-year (4-digit year), month-day-year (2-digit year),
\* year-month-day, day-month-year, that accepts the stripped input; so an
\* input valid both as month-day-year and as day-month-year takes its month
\* from its first field and its day from its second.
C11_FirstAcceptingFormatWins ==
    (last.op = "parse_date") =>
        IF ~TruthyStr(last.date_str) \/ LastAccepting = {}
        THEN last.ret = None
        ELSE LET first == CHOOSE i \in LastAccepting : \A j \in LastAccepting : i <= j
                 d == strptime(LastStripped, DescribedOrder[first])[1]
                 p == SplitHyphen(LastStripped)
             IN  /\ last.ret # None
                 /\ IsYearMonthDay(last.ret[1], d)
                 /\ ({1, 4} \subseteq LastAccepting) =>
                        /\ d.m = DirMonth(p[1])[1]
                        /\ d.d = DirDay(p[2])[1]

\* parse_date has read " 02-12-2016", which is valid as month-day-year and
\* as day-month-year, as the 12th of February.
C11_Witness ==
    /\ last.op = "parse_date"
    /\ last.date_str = Some(<<" ", "0", "2", "-", "1", "2", "-", "2", "0", "1", "6">>)
    /\ {1, 4} \subseteq LastAccepting
    /\ last.ret = Some(<<"2", "0", "1", "6", "-", "0", "2", "-", "1", "2">>)

\* The ids of the merchant and product rows of the tables t.
MerchantRowIds(t) == {t.merchant[i].id : i \in 1..Len(t.merchant)}
ProductRowIds(t) == {t.product[i].id : i \in 1..Len(t.product)}

\* The receipt rows of t that name the merchant id, and the item rows that
\* name the product id.
ReceiptsNaming(t, id) == {i \in 1..Len(t.receipt) : t.receipt[i].merchant_id = id}
ItemsNaming(t, id) == {i \in 1..Len(t.item) : t.item[i].product_id = id}

\* C12: while every call made is an insert_receipt, every committed
\* merchant row is named by a committed receipt and every committed product
\* row by a committed receipt item; a merchant or product row that the
\* latest call committed is named by a receipt or an item that the same call
\* committed, and the call leaves no merchant or product row pending: the
\* rows it created were committed or discarded with its header and items.
C12_ResolvedRowsShareTheReceiptTransaction ==
    last.batch =>
        /\ \A id \in MerchantRowIds(conn.comm) : ReceiptsNaming(conn.comm, id) # {}
        /\ \A id \in ProductRowIds(conn.comm) : ItemsNaming(conn.comm, id) # {}
        /\ WasInsertReceipt =>
              /\ \A id \in MerchantRowIds(conn.comm) \ MerchantRowIds(last.pre.comm) :
                    ReceiptsNaming(conn.comm, id) \cap ReceiptsOfCall(conn.comm, last.call) # {}
              /\ \A id \in ProductRowIds(conn.comm) \ ProductRowIds(last.pre.comm) :
                    ItemsNaming(conn.comm, id) \cap ItemsOfCall(conn.comm, last.call) # {}
              /\ conn.work.merchant = conn.comm.merchant
              /\ conn.work.product = conn.comm.product

\* The second of two insert_receipt calls has committed a merchant and a
\* product with its receipt and items, after the first call's merchant row
\* was discarded with its receipt: the sequence has handed out two ids and
\* one merchant row is committed.
C12_Witness ==
    /\ last.batch /\ WasInsertReceipt /\ last.ok
    /\ last.call = 2 /\ ~last.prevOk
    /\ conn.seq.merchant = 2
    /\ Len(conn.comm.merchant) = 1
    /\ Len(conn.comm.product) >= 1
    /\ last.pre.comm = EmptyTables
    /\ ReceiptsOfCall(conn.comm, last.call) # {}
    /\ ItemsOfCall(conn.comm, last.call) # {}

============================================================================
